---- MODULE Spec2Model ----
(***************************************************************************)
(* Model of apps/builder/app/builder/shared/assets/asset-utils.ts:         *)
(* the image extension/MIME resolver, the SHA-256 file digest and the      *)
(* conversion of a pending upload into an Asset.                           *)
(*                                                                         *)
(* A JavaScript string is the sequence of its characters, each character a *)
(* one-character TLA+ string, so that endsWith, split and the regular      *)
(* expressions of the source are computed character by character.          *)
(***************************************************************************)
EXTENDS Integers, Sequences, FiniteSets, TLC

VARIABLES
  op,        \* the exported function that is being called
  arg,       \* its arguments
  pc,        \* position of the call: "ready", "done", or a step of the digest
  scan,      \* getImageNameAndType: the locals after the scan of lines 66-99
  ret,       \* the value returned (or the settled promise of the digest)
  reader,    \* the FileReader of readFileAsArrayBuffer
  readPromise, \* the promise returned by readFileAsArrayBuffer
  digest     \* the calls made to crypto.subtle.digest

vars == <<op, arg, pc, scan, ret, reader, readPromise, digest>>

-----------------------------------------------------------------------------
(* Strings *)

\* The characters of a string literal.
Chars(s) == [i \in 1..Len(s) |-> SubSeq(s, i, i)]

\* JavaScript's undefined: distinct from every string, whose elements are
\* single characters.
Undefined == <<"undefined">>

Range(f) == {f[i] : i \in DOMAIN f}

Min(S) == CHOOSE x \in S : \A y \in S : x <= y

EndsWith(s, suffix) ==
  /\ Len(suffix) <= Len(s)
  /\ SubSeq(s, Len(s) - Len(suffix) + 1, Len(s)) = suffix

\* !s for a string or undefined
Falsy(s) == s = Undefined \/ s = <<>>

\* s?.endsWith(ext), as a condition
OptEndsWith(s, ext) == s # Undefined /\ EndsWith(s, ext)

StartsWith(s, prefix) ==
  /\ Len(prefix) <= Len(s)
  /\ SubSeq(s, 1, Len(prefix)) = prefix

\* s.split(sep) for a one-character separator: the pieces between separators.
RECURSIVE Split(_, _)
Split(s, sep) ==
  IF \A i \in 1..Len(s) : s[i] # sep
  THEN <<s>>
  ELSE LET k == Min({i \in 1..Len(s) : s[i] = sep})
       IN  <<SubSeq(s, 1, k - 1)>> \o Split(SubSeq(s, k + 1, Len(s)), sep)

UpperCase == Chars("ABCDEFGHIJKLMNOPQRSTUVWXYZ")
LowerCase == Chars("abcdefghijklmnopqrstuvwxyz")
Digits == Chars("0123456789")

\* Case folding of the i flag of a regular expression.
ToLower(c) ==
  IF c \in Range(UpperCase)
  THEN LowerCase[CHOOSE i \in 1..26 : UpperCase[i] = c]
  ELSE c

\* \w
IsWordChar(c) == c \in Range(UpperCase) \cup Range(LowerCase) \cup Range(Digits) \cup {"_"}

\* \b before position i of s (i = Len(s) + 1 is the end of the string).
WordBoundary(s, i) ==
  (i > 1 /\ i - 1 <= Len(s) /\ IsWordChar(s[i - 1])) # (i <= Len(s) /\ IsWordChar(s[i]))

\* The literal lit (given in lower case) matches s at position i under the i flag.
LiteralAt(s, i, lit) ==
  /\ i + Len(lit) - 1 <= Len(s)
  /\ \A k \in 1..Len(lit) : ToLower(s[i + k - 1]) = lit[k]

\* /\b<lit>\b/i.test(s)
TestWord(s, lit) ==
  \E i \in 1..Len(s) :
    WordBoundary(s, i) /\ LiteralAt(s, i, lit) /\ WordBoundary(s, i + Len(lit))

-----------------------------------------------------------------------------
(* The extension/MIME table *)

imageExtensionToMime ==
  << <<Chars(".gif"),  Chars("image/gif")>>,
     <<Chars(".ico"),  Chars("image/x-icon")>>,
     <<Chars(".jpeg"), Chars("image/jpeg")>>,
     <<Chars(".jpg"),  Chars("image/jpeg")>>,
     <<Chars(".png"),  Chars("image/png")>>,
     <<Chars(".svg"),  Chars("image/svg+xml")>>,
     <<Chars(".webp"), Chars("image/webp")>> >>

imageExtensions == [i \in DOMAIN imageExtensionToMime |-> imageExtensionToMime[i][1]]

imageMimeTypes == [i \in DOMAIN imageExtensionToMime |-> imageExtensionToMime[i][2]]

\* Map.prototype.get on the table.
MapGet(key) ==
  IF \E i \in DOMAIN imageExtensionToMime : imageExtensionToMime[i][1] = key
  THEN imageExtensionToMime[Min({i \in DOMAIN imageExtensionToMime :
                                   imageExtensionToMime[i][1] = key})][2]
  ELSE Undefined

\* Array.prototype.indexOf: the zero-based index of the first occurrence, or -1.
IndexOf(array, x) ==
  IF \E i \in DOMAIN array : array[i] = x
  THEN Min({i \in DOMAIN array : array[i] = x}) - 1
  ELSE -1

\* With lastIndexOf in place of indexOf.
getImageExtensionForMimeType_Last(mimeType) ==
  LET at == {i \in DOMAIN imageMimeTypes : imageMimeTypes[i] = mimeType}
  IN  IF at # {} THEN imageExtensions[CHOOSE i \in at : \A j \in at : j <= i] ELSE Undefined

getImageExtensionForMimeType(mimeType) ==
  LET index == IndexOf(imageMimeTypes, mimeType)
  IN  IF index > -1 THEN imageExtensions[index + 1] ELSE Undefined

\* imageExtensions.find((ext) => s.endsWith(ext))
FindSuffixExtension(s) ==
  IF \E i \in DOMAIN imageExtensions : EndsWith(s, imageExtensions[i])
  THEN imageExtensions[Min({i \in DOMAIN imageExtensions : EndsWith(s, imageExtensions[i])})]
  ELSE Undefined

\* a ?? b
Coalesce(a, b) == IF a = Undefined THEN b ELSE a

\* Lines 55-57: the returned pair.
ReturnStringAndType(url, extension) ==
  IF ~Falsy(extension)
  THEN <<url, MapGet(extension)>>
  ELSE <<Undefined, Undefined>>

\* The string branch with the default extension tried before the suffix.
getImageNameAndTypeOfString_DefaultFirst(url, defaultExtension) ==
  ReturnStringAndType(url, Coalesce(defaultExtension, FindSuffixExtension(url)))

\* The string branch of getImageNameAndType.
getImageNameAndTypeOfString(url, defaultExtension) ==
  ReturnStringAndType(url, Coalesce(FindSuffixExtension(url), defaultExtension))

-----------------------------------------------------------------------------
(* The regular expressions of the URL branch *)

Quote == "\""

\* /\bfilename=(?:"([^"]+)"|([^;]+))/i tried at position i of value:
\* the two capture groups, or no match.
FileNameMatchAt(value, i) ==
  LET j == i + 9
      closing == {k \in (j + 1)..Len(value) : value[k] = Quote}
      stops == {k \in j..Len(value) : value[k] = ";"}
  IN  IF ~(WordBoundary(value, i) /\ LiteralAt(value, i, Chars("filename=")))
      THEN [matched |-> FALSE]
      ELSE IF j <= Len(value) /\ value[j] = Quote /\ closing # {} /\ Min(closing) >= j + 2
      THEN [matched |-> TRUE, g1 |-> SubSeq(value, j + 1, Min(closing) - 1), g2 |-> Undefined]
      ELSE IF j <= Len(value) /\ value[j] # ";"
      THEN [matched |-> TRUE, g1 |-> Undefined,
            g2 |-> SubSeq(value, j, IF stops = {} THEN Len(value) ELSE Min(stops) - 1)]
      ELSE [matched |-> FALSE]

\* The match at the leftmost of the positions at where the regex matches.
FileNameMatchAmong(value, at) ==
  IF at = {} THEN [matched |-> FALSE] ELSE FileNameMatchAt(value, Min(at))

\* value.match(/\bfilename=(?:"([^"]+)"|([^;]+))/i): the leftmost match.
FileNameMatch(value) ==
  FileNameMatchAmong(value, {i \in 1..Len(value) : FileNameMatchAt(value, i).matched})

\* [\w-+]
IsMimeChar(c) == IsWordChar(c) \/ c = "-" \/ c = "+"

\* /\b(image\/[\w-+]+)/i tried at position i of value.
MimeTypeMatchAt(value, i) ==
  LET j == i + 6
      stops == {k \in j..Len(value) : ~IsMimeChar(value[k])}
  IN  IF /\ WordBoundary(value, i)
         /\ LiteralAt(value, i, Chars("image/"))
         /\ j <= Len(value)
         /\ IsMimeChar(value[j])
      THEN [matched |-> TRUE,
            g1 |-> SubSeq(value, i, IF stops = {} THEN Len(value) ELSE Min(stops) - 1)]
      ELSE [matched |-> FALSE]

\* The match at the leftmost of the positions at where the regex matches.
MimeTypeMatchAmong(value, at) ==
  IF at = {} THEN [matched |-> FALSE] ELSE MimeTypeMatchAt(value, Min(at))

\* value.match(/\b(image\/[\w-+]+)/i): the leftmost match.
MimeTypeMatch(value) ==
  MimeTypeMatchAmong(value, {i \in 1..Len(value) : MimeTypeMatchAt(value, i).matched})

\* contentDispositionKey.test(key), contentTypeKey.test(key)
contentDispositionKey(key) == TestWord(key, Chars("content-disposition"))
contentTypeKey(key) == TestWord(key, Chars("content-type"))

-----------------------------------------------------------------------------
(* URLs: a pathname and the list of query parameters, in order *)

\* array.at(-1)
Last(array) == array[Len(array)]

\* url.pathname.split("/").at(-1) ?? ""
Basename(url) == Last(Split(url.pathname, "/"))

\* [...url.searchParams.keys()]: one key per parameter, duplicates included.
SearchParamsKeys(url) == [i \in DOMAIN url.searchParams |-> url.searchParams[i][1]]

\* url.searchParams.get(key): the value of the first parameter named key.
SearchParamsGet(url, key) ==
  url.searchParams[Min({i \in DOMAIN url.searchParams : url.searchParams[i][1] = key})][2]

-----------------------------------------------------------------------------
(* getImageNameAndType on a URL *)

\* Lines 74-76: fileName is set from the match, if there is one.
CaptureFileName(st, fileNameMatch) ==
  IF fileNameMatch.matched
  THEN [st EXCEPT !.fileName =
          Coalesce(fileNameMatch.g1, Coalesce(fileNameMatch.g2, <<>>))]
  ELSE st

\* Lines 79-81: mimeType is set from the match, if there is one.
CaptureMimeType(st, mimeTypeMatch) ==
  IF mimeTypeMatch.matched
  THEN [st EXCEPT !.mimeType = mimeTypeMatch.g1]
  ELSE st

\* One pass of the body of the loop over url.searchParams.keys(): st holds
\* fileName, mimeType (shared by all passes) and foundInSearchParams.
SearchParamStep(st, key, value, ext) ==
  IF Falsy(st.fileName) /\ contentDispositionKey(key)
  THEN CaptureFileName(st, FileNameMatch(value))
  ELSE IF Falsy(st.mimeType) /\ contentTypeKey(key)
  THEN CaptureMimeType(st, MimeTypeMatch(value))
  ELSE IF ~st.foundInSearchParams /\ EndsWith(value, ext)
  THEN [st EXCEPT !.foundInSearchParams = TRUE]
  ELSE st

\* The loop over url.searchParams.keys(), from the i-th key on.
RECURSIVE SearchParamsLoop(_, _, _, _)
SearchParamsLoop(url, i, ext, st) ==
  IF i > Len(url.searchParams)
  THEN st
  ELSE SearchParamsLoop(url, i + 1, ext,
         SearchParamStep(st, SearchParamsKeys(url)[i],
                         SearchParamsGet(url, SearchParamsKeys(url)[i]), ext))

\* The start of a pass: foundInSearchParams is false.
PassStart(fileName, mimeType) ==
  [fileName |-> fileName, mimeType |-> mimeType, foundInSearchParams |-> FALSE]

\* Lines 87-98 with the basename always taken as the filename.
AfterSearchParams_BasenameAlways(basename, ext, st) ==
  IF EndsWith(basename, ext)
  THEN [accepted |-> TRUE, fileName |-> basename, mimeType |-> st.mimeType]
  ELSE [accepted |-> \/ st.foundInSearchParams
                     \/ OptEndsWith(st.fileName, ext)
                     \/ st.mimeType = MapGet(ext),
        fileName |-> st.fileName,
        mimeType |-> st.mimeType]

\* Lines 87-98: what the callback answers for ext after the loop left st,
\* and the locals afterwards.
AfterSearchParams(basename, ext, st) ==
  IF EndsWith(basename, ext)
  THEN [accepted |-> TRUE,
        fileName |-> IF ~OptEndsWith(st.fileName, ext) THEN basename ELSE st.fileName,
        mimeType |-> st.mimeType]
  ELSE [accepted |-> \/ st.foundInSearchParams
                     \/ OptEndsWith(st.fileName, ext)
                     \/ st.mimeType = MapGet(ext),
        fileName |-> st.fileName,
        mimeType |-> st.mimeType]

\* The callback given to imageExtensions.find, called with ext while the
\* shared locals are fileName and mimeType: whether ext is accepted, and the
\* locals afterwards.
FindCallback(url, ext, fileName, mimeType) ==
  AfterSearchParams(Basename(url), ext,
                    SearchParamsLoop(url, 1, ext, PassStart(fileName, mimeType)))

\* imageExtensions.find(callback) from the i-th extension on: the extension
\* found (or undefined) and the locals fileName and mimeType after the scan.
\* FindFrom continues after the callback answered r for the i-th extension.
RECURSIVE FindExtension(_, _, _, _)
FindFrom(url, i, r) ==
  IF r.accepted
  THEN [extension |-> imageExtensions[i], fileName |-> r.fileName, mimeType |-> r.mimeType]
  ELSE FindExtension(url, i + 1, r.fileName, r.mimeType)

FindExtension(url, i, fileName, mimeType) ==
  IF i > Len(imageExtensions)
  THEN [extension |-> Undefined, fileName |-> fileName, mimeType |-> mimeType]
  ELSE FindFrom(url, i, FindCallback(url, imageExtensions[i], fileName, mimeType))

\* Lines 66-99: the scan, starting with fileName and mimeType undefined.
ScanURL(url) == FindExtension(url, 1, Undefined, Undefined)

\* `${id}.${extension}`: undefined is printed as the word "undefined".
SynthesizedName(id, extension) ==
  id \o <<".">> \o (IF extension = Undefined THEN Chars("undefined") ELSE extension)

\* Line 104: extension && imageExtensionToMime.get(extension)
ImpliedMimeType(extension) == IF Falsy(extension) THEN extension ELSE MapGet(extension)

\* Lines 109-111: the returned pair.
ReturnNameAndType(fileName, mimeType, extension, id) ==
  IF ~Falsy(mimeType)
  THEN <<Coalesce(fileName, SynthesizedName(id, extension)), mimeType>>
  ELSE <<Undefined, Undefined>>

\* Lines 104-111 with the captured MIME type trusted over the extension.
TrustExtension_HintFirst(found, extension, id) ==
  ReturnNameAndType(found.fileName,
                    IF ~Falsy(found.mimeType)
                    THEN found.mimeType
                    ELSE ImpliedMimeType(extension),
                    extension, id)

\* Lines 104-111: the extension's MIME type replaces the captured one.
TrustExtension(found, extension, id) ==
  ReturnNameAndType(found.fileName,
                    IF ~Falsy(ImpliedMimeType(extension))
                    THEN ImpliedMimeType(extension)
                    ELSE found.mimeType,
                    extension, id)

\* Lines 101-111: from the locals after the scan to the returned pair; id is
\* what nanoid() returns.
ResolveNameAndType(found, defaultExtension, id) ==
  TrustExtension(found, Coalesce(found.extension, defaultExtension), id)

\* The URL branch of getImageNameAndType.
getImageNameAndTypeOfURL(url, defaultExtension, id) ==
  ResolveNameAndType(ScanURL(url), defaultExtension, id)

\* getImageType for a File (its type) or a URL (the inferred MIME type).
getImageType(file, id) ==
  IF file.kind = "File"
  THEN file.type
  ELSE getImageNameAndTypeOfURL(file, Undefined, id)[2]

-----------------------------------------------------------------------------
(* uploadingFileDataToAsset *)

NaN == "NaN"

\* a || b
OrElse(a, b) == IF Falsy(a) THEN b ELSE a

\* Lines 161-164 with || in place of ??: an empty type takes the default too.
AssetMimeType_OrDefault(fileData, id) ==
  OrElse(getImageType(IF fileData.source = "file" THEN fileData.file ELSE fileData.url, id),
         Chars("image/png"))

\* Lines 161-164: the MIME type of the upload. fileData.url stands for
\* new URL(fileData.url), the parsed URL.
AssetMimeType(fileData, id) ==
  Coalesce(getImageType(IF fileData.source = "file" THEN fileData.file ELSE fileData.url,
                        id),
           Chars("image/png"))

\* array[index], undefined beyond the end (index counted from 0)
At(array, index) == IF index < Len(array) THEN array[index + 1] ELSE Undefined

\* mimeType.split("/")[1]
AssetFormat(mimeType) == At(Split(mimeType, "/"), 1)

\* Lines 168-182: the image asset.
ImageAsset(fileData, format) ==
  [id |-> fileData.assetId,
   name |-> fileData.objectURL,
   format |-> format,
   type |-> Chars("image"),
   description |-> <<>>,
   createdAt |-> <<>>,
   projectId |-> <<>>,
   size |-> 0,
   meta |-> [width |-> NaN, height |-> NaN]]

\* Lines 187-201 with the format taken from the MIME type.
FontAsset_MimeFormat(fileData, format) ==
  [id |-> fileData.assetId,
   name |-> fileData.objectURL,
   format |-> format,
   type |-> Chars("font"),
   description |-> <<>>,
   createdAt |-> <<>>,
   projectId |-> <<>>,
   size |-> 0,
   meta |-> [family |-> Chars("system"), style |-> Chars("normal"), weight |-> 400]]

\* Lines 187-201: the font asset; format is not used.
FontAsset(fileData, format) ==
  [id |-> fileData.assetId,
   name |-> fileData.objectURL,
   format |-> Chars("woff2"),
   type |-> Chars("font"),
   description |-> <<>>,
   createdAt |-> <<>>,
   projectId |-> <<>>,
   size |-> 0,
   meta |-> [family |-> Chars("system"), style |-> Chars("normal"), weight |-> 400]]

\* Lines 165-203: the asset for the MIME type.
AssetOfMimeType(fileData, mimeType) ==
  IF StartsWith(mimeType, Chars("image/"))
  THEN ImageAsset(fileData, AssetFormat(mimeType))
  ELSE FontAsset(fileData, AssetFormat(mimeType))

uploadingFileDataToAsset(fileData, id) ==
  AssetOfMimeType(fileData, AssetMimeType(fileData, id))

-----------------------------------------------------------------------------
(* bufferToHex *)

HexDigits == Chars("0123456789abcdef")

\* byte.toString(16)
ToString16(byte) ==
  IF byte < 16
  THEN <<HexDigits[byte + 1]>>
  ELSE <<HexDigits[(byte \div 16) + 1], HexDigits[(byte % 16) + 1]>>

\* s.padStart(2, "0")
PadStart2(s) == IF Len(s) < 2 THEN <<"0">> \o s ELSE s

RECURSIVE bufferToHex(_)
bufferToHex(buffer) ==
  IF buffer = <<>>
  THEN <<>>
  ELSE PadStart2(ToString16(Head(buffer))) \o bufferToHex(Tail(buffer))

-----------------------------------------------------------------------------
(* Inputs *)

MaxParams == 2    \* query parameters of a URL
MaxBytes == 2     \* bytes of a file, and of a digest

SeqsUpTo(S, n) == UNION {[1..k -> S] : k \in 0..n}

Extensions == Range(imageExtensions)

DefaultExtensions == {Undefined} \cup Extensions

URLDefaultExtensions == {Undefined, Chars(".jpg"), Chars(".svg")}

Stems == {Chars(""), Chars("data"), Chars("photo"), Chars("a.png")}

Suffixes == Extensions \cup {Chars(""), Chars(".bin"), Chars(".PNG")}

UrlStrings == {stem \o suffix : stem \in Stems, suffix \in Suffixes}

MimeTypeArgs ==
  Range(imageMimeTypes) \cup
    {Chars("image/avif"), Chars("image/jpg"), Chars("IMAGE/PNG"), Chars("font/woff2"),
     Chars(".png"), Chars("")}

Pathnames ==
  {Chars("/img/pic.gif"), Chars("/logo.webp"), Chars("/download"), Chars("/dir.png/")}

SearchParamPool ==
  { <<Chars("content-disposition"), Chars("attachment; filename=\"cat.webp\"")>>,
    <<Chars("content-disposition"),
      Chars("attachment; filename=\"cat\"; filename*=UTF-8''cat.png")>>,
    <<Chars("response-content-disposition"), Chars("inline; filename=dog.jpeg")>>,
    <<Chars("Content-Type"), Chars("image/png")>>,
    <<Chars("content-type"), Chars("IMAGE/PNG")>>,
    <<Chars("response-content-type"), Chars("image/avif")>>,
    <<Chars("src"), Chars("pic.gif")>>,
    <<Chars("src"), Chars("v1")>> }

URLs ==
  [kind : {"URL"}, pathname : Pathnames, searchParams : SeqsUpTo(SearchParamPool, MaxParams)]

FileTypes ==
  {Chars(""), Chars("image/png"), Chars("image/jpeg"), Chars("image/svg+xml"),
   Chars("image/avif"), Chars("font/woff2"), Chars("font/ttf"),
   Chars("application/octet-stream")}

Files == [kind : {"File"}, type : FileTypes]

\* The assetId and objectURL of a pending upload.
Uploads ==
  { [assetId |-> Chars("a1"), objectURL |-> Chars("blob:1")],
    [assetId |-> Chars("a2"), objectURL |-> Chars("blob:2")] }

\* UploadingFileData
FileDatas ==
  {[source |-> "file", file |-> f, assetId |-> u.assetId, objectURL |-> u.objectURL] :
     f \in Files, u \in Uploads}
    \cup
  {[source |-> "url", url |-> url, assetId |-> u.assetId, objectURL |-> u.objectURL] :
     url \in URLs, u \in Uploads}

\* What nanoid() may return.
NanoIds == {Chars("V1StGXR8"), Chars("x_Z5-jTe")}

Bytes == {0, 10, 171, 255}

Buffers == SeqsUpTo(Bytes, MaxBytes)

\* What reader.error may be.
ReaderErrors == {Chars("NotReadableError"), Chars("NotFoundError")}

-----------------------------------------------------------------------------
(* The calls *)

NoReader == [state |-> "none"]
NoPromise == [status |-> "none"]
NoDigest == [calls |-> <<>>, hashBuffer |-> Undefined]

Init ==
  /\ \/ op = "getImageExtensionForMimeType"
        /\ arg \in [mimeType : MimeTypeArgs]
     \/ op = "getImageNameAndType(string)"
        /\ arg \in [url : UrlStrings, defaultExtension : DefaultExtensions]
     \/ op = "getImageNameAndType(URL)"
        /\ arg \in [url : URLs, defaultExtension : URLDefaultExtensions]
     \/ op = "uploadingFileDataToAsset"
        /\ arg \in [fileData : FileDatas]
     \/ op = "getSha256HashOfFile"
        /\ arg \in [file : [contents : Buffers]]
  /\ pc = "ready"
  /\ scan = Undefined
  /\ ret = Undefined
  /\ reader = NoReader
  /\ readPromise = NoPromise
  /\ digest = NoDigest

CallGetImageExtensionForMimeType ==
  /\ op = "getImageExtensionForMimeType"
  /\ pc = "ready"
  /\ ret' = getImageExtensionForMimeType(arg.mimeType)
  /\ pc' = "done"
  /\ UNCHANGED <<op, arg, scan, reader, readPromise, digest>>

CallGetImageNameAndTypeOfString ==
  /\ op = "getImageNameAndType(string)"
  /\ pc = "ready"
  /\ ret' = getImageNameAndTypeOfString(arg.url, arg.defaultExtension)
  /\ pc' = "done"
  /\ UNCHANGED <<op, arg, scan, reader, readPromise, digest>>

CallGetImageNameAndTypeOfURL ==
  /\ op = "getImageNameAndType(URL)"
  /\ pc = "ready"
  /\ \E id \in NanoIds :
       /\ scan' = ScanURL(arg.url)
       /\ ret' = getImageNameAndTypeOfURL(arg.url, arg.defaultExtension, id)
  /\ pc' = "done"
  /\ UNCHANGED <<op, arg, reader, readPromise, digest>>

CallUploadingFileDataToAsset ==
  /\ op = "uploadingFileDataToAsset"
  /\ pc = "ready"
  /\ \E id \in NanoIds :
       ret' = uploadingFileDataToAsset(arg.fileData, id)
  /\ pc' = "done"
  /\ UNCHANGED <<op, arg, scan, reader, readPromise, digest>>

-----------------------------------------------------------------------------
(* getSha256HashOfFile *)

\* resolve or reject of a promise: only a pending promise is settled.
Settle(promise, status, value) ==
  IF promise.status = "pending"
  THEN [status |-> status, value |-> value]
  ELSE promise

\* The call: readFileAsArrayBuffer creates the reader and its promise and
\* starts the read; the async function suspends at its first await.
CallGetSha256HashOfFile ==
  /\ op = "getSha256HashOfFile"
  /\ pc = "ready"
  /\ reader' = [state |-> "loading", result |-> Undefined, error |-> Undefined]
  /\ readPromise' = [status |-> "pending", value |-> Undefined]
  /\ ret' = [status |-> "pending", value |-> Undefined]
  /\ pc' = "awaitRead"
  /\ UNCHANGED <<op, arg, scan, digest>>

\* The read succeeds: reader.onload resolves the promise with reader.result.
ReaderOnLoad ==
  /\ reader.state = "loading"
  /\ reader' = [reader EXCEPT !.state = "done", !.result = arg.file.contents]
  /\ readPromise' = Settle(readPromise, "fulfilled", reader'.result)
  /\ UNCHANGED <<op, arg, pc, scan, ret, digest>>

\* The read fails: reader.onerror rejects the promise with reader.error.
ReaderOnError ==
  /\ reader.state = "loading"
  /\ \E error \in ReaderErrors :
       /\ reader' = [reader EXCEPT !.state = "done", !.error = error]
       /\ readPromise' = Settle(readPromise, "rejected", reader'.error)
  /\ UNCHANGED <<op, arg, pc, scan, ret, digest>>

\* The digest started without awaiting the read, on what the reader holds.
DigestAfterRead_NoAwait ==
  /\ pc = "awaitRead"
  /\ readPromise.status # "rejected"
  /\ digest' = [digest EXCEPT !.calls = Append(@, Coalesce(reader.result, <<>>))]
  /\ pc' = "awaitDigest"
  /\ UNCHANGED <<op, arg, scan, ret, reader, readPromise>>

\* The first await resumes with the buffer: crypto.subtle.digest is called on it.
DigestAfterRead ==
  /\ pc = "awaitRead"
  /\ readPromise.status = "fulfilled"
  /\ digest' = [digest EXCEPT !.calls = Append(@, readPromise.value)]
  /\ pc' = "awaitDigest"
  /\ UNCHANGED <<op, arg, scan, ret, reader, readPromise>>

\* The first await throws the rejection: the async function rejects with it.
RejectAfterRead ==
  /\ pc = "awaitRead"
  /\ readPromise.status = "rejected"
  /\ ret' = Settle(ret, "rejected", readPromise.value)
  /\ pc' = "done"
  /\ UNCHANGED <<op, arg, scan, reader, readPromise, digest>>

\* The second await resumes with the digest, whose bytes the platform
\* computes: the async function returns its hex encoding.
ReturnHex ==
  /\ pc = "awaitDigest"
  /\ \E hashBuffer \in Buffers \ {<<>>} :
       /\ digest' = [digest EXCEPT !.hashBuffer = hashBuffer]
       /\ ret' = Settle(ret, "fulfilled", bufferToHex(hashBuffer))
  /\ pc' = "done"
  /\ UNCHANGED <<op, arg, scan, reader, readPromise>>

-----------------------------------------------------------------------------

Next ==
  \/ CallGetImageExtensionForMimeType
  \/ CallGetImageNameAndTypeOfString
  \/ CallGetImageNameAndTypeOfURL
  \/ CallUploadingFileDataToAsset
  \/ CallGetSha256HashOfFile
  \/ ReaderOnLoad
  \/ ReaderOnError
  \/ DigestAfterRead
  \/ RejectAfterRead
  \/ ReturnHex

Spec == Init /\ [][Next]_vars

-----------------------------------------------------------------------------
(* What the claims speak of *)

Done(o) == op = o /\ pc = "done"

\* The first extension, in table order, that satisfies P.
FirstExtension(P(_)) ==
  IF \E i \in DOMAIN imageExtensions : P(imageExtensions[i])
  THEN imageExtensions[Min({i \in DOMAIN imageExtensions : P(imageExtensions[i])})]
  ELSE Undefined

\* The MIME type the table gives for a known extension.
TableMime(ext) ==
  imageMimeTypes[CHOOSE i \in DOMAIN imageExtensions : imageExtensions[i] = ext]

\* The filename captured from content-disposition: that of the first
\* parameter with such a key whose value holds a filename attribute.
CapturedFileName(url) ==
  LET keys == SearchParamsKeys(url)
      at == {i \in DOMAIN keys :
               /\ contentDispositionKey(keys[i])
               /\ FileNameMatch(SearchParamsGet(url, keys[i])).matched}
      m == FileNameMatch(SearchParamsGet(url, keys[Min(at)]))
  IN  IF at = {} THEN Undefined ELSE Coalesce(m.g1, m.g2)

\* The MIME type captured from content-type: that of the first parameter
\* with such a key whose value holds an image/... token.
CapturedMimeType(url) ==
  LET keys == SearchParamsKeys(url)
      at == {i \in DOMAIN keys :
               /\ contentTypeKey(keys[i])
               /\ ~contentDispositionKey(keys[i])
               /\ MimeTypeMatch(SearchParamsGet(url, keys[i])).matched}
  IN  IF at = {} THEN Undefined
      ELSE MimeTypeMatch(SearchParamsGet(url, keys[Min(at)])).g1

\* The extension getImageNameAndType resolved for the URL of the call.
ResolvedExtension == Coalesce(scan.extension, arg.defaultExtension)

-----------------------------------------------------------------------------
(* C1 *)

\* C1: getImageNameAndType on a URL: when no extension is resolved (neither by
\* the scan nor by defaultExtension), the result is (undefined, undefined),
\* whatever the basename and the query parameters are.
C1_NoExtensionBothAbsent ==
  (Done("getImageNameAndType(URL)") /\ ResolvedExtension = Undefined)
    => ret = <<Undefined, Undefined>>

-----------------------------------------------------------------------------
(* C2 *)

\* The four conditions under which the claim lets an extension apply.
C2_Applies(url, ext) ==
  \/ EndsWith(Basename(url), ext)
  \/ \E i \in DOMAIN url.searchParams :
       LET key == SearchParamsKeys(url)[i]
       IN  /\ ~contentDispositionKey(key)
           /\ ~contentTypeKey(key)
           /\ EndsWith(SearchParamsGet(url, key), ext)
  \/ OptEndsWith(CapturedFileName(url), ext)
  \/ CapturedMimeType(url) = TableMime(ext)

\* C2: getImageNameAndType on a URL: the extension chosen by the scan is the
\* first one in table order whose basename, plain parameter value, captured
\* filename or captured MIME type condition holds; the raw value of a
\* content-disposition or content-type parameter never makes one apply.
C2_ScanPicksFirstApplicable ==
  Done("getImageNameAndType(URL)")
    => scan.extension = FirstExtension(LAMBDA ext : C2_Applies(arg.url, ext))

-----------------------------------------------------------------------------
(* C3 *)

\* C3: getImageNameAndType on a string s: with E the first known extension in
\* table order that is a suffix of s, or defaultExtension if none is, the
\* result is (s, table MIME of E), s unchanged; without E it is
\* (undefined, undefined). So a string ending in a known extension is returned
\* as the filename, and ("data.bin", ".jpg") gives ("data.bin", "image/jpeg").
C3_StringSuffixOrDefault ==
  Done("getImageNameAndType(string)") =>
    LET s == arg.url
        E == Coalesce(FirstExtension(LAMBDA ext : EndsWith(s, ext)), arg.defaultExtension)
    IN  /\ E # Undefined => ret = <<s, TableMime(E)>>
        /\ E = Undefined => ret = <<Undefined, Undefined>>
        /\ (arg.defaultExtension = Undefined /\ \E ext \in Extensions : EndsWith(s, ext))
             => ret[1] = s
        /\ (s = Chars("data.bin") /\ arg.defaultExtension = Chars(".jpg"))
             => ret = <<Chars("data.bin"), Chars("image/jpeg")>>

\* The default extension decides for a string that ends in no known extension.
C3_Witness ==
  /\ Done("getImageNameAndType(string)")
  /\ arg.url = Chars("data.bin")
  /\ arg.defaultExtension = Chars(".jpg")
  /\ ret = <<Chars("data.bin"), Chars("image/jpeg")>>

-----------------------------------------------------------------------------
(* C4 *)

\* The MIME type uploadingFileDataToAsset resolved for the record of the call.
ResolvedMimeType ==
  LET fileData == arg.fileData
  IN  Coalesce(IF fileData.source = "file"
               THEN fileData.file.type
               ELSE getImageNameAndTypeOfURL(fileData.url, Undefined, <<>>)[2],
               Chars("image/png"))

\* C4: uploadingFileDataToAsset classifies by the resolved MIME type only:
\* with the prefix "image/" the asset is an image whose format is the text
\* after the "/" and whose width and height are NaN; otherwise it is a font
\* of format "woff2", family "system", style "normal", weight 400. Either way
\* id and name are the record's assetId and objectURL, description, createdAt
\* and projectId are empty and size is 0.
C4_ClassifiedByMimePrefix ==
  Done("uploadingFileDataToAsset") =>
    /\ IF StartsWith(ResolvedMimeType, Chars("image/"))
       THEN /\ ret.type = Chars("image")
            /\ Chars("image/") \o ret.format = ResolvedMimeType
            /\ ret.meta = [width |-> NaN, height |-> NaN]
       ELSE /\ ret.type = Chars("font")
            /\ ret.format = Chars("woff2")
            /\ ret.meta = [family |-> Chars("system"), style |-> Chars("normal"),
                           weight |-> 400]
    /\ ret.id = arg.fileData.assetId
    /\ ret.name = arg.fileData.objectURL
    /\ ret.description = <<>>
    /\ ret.createdAt = <<>>
    /\ ret.projectId = <<>>
    /\ ret.size = 0

\* A file of a non-image type became a woff2 font asset.
C4_Witness ==
  /\ Done("uploadingFileDataToAsset")
  /\ arg.fileData.source = "file"
  /\ arg.fileData.file.type = Chars("application/octet-stream")
  /\ ret.type = Chars("font")
  /\ ret.format = Chars("woff2")
  /\ ret.id = Chars("a2")

-----------------------------------------------------------------------------
(* C5 *)

\* The MIME type that decides the asset is m: an image of the subtype of m
\* when m starts with "image/", a font otherwise.
C5_DecidedBy(m) ==
  IF StartsWith(m, Chars("image/"))
  THEN ret.type = Chars("image") /\ Chars("image/") \o ret.format = m
  ELSE ret.type = Chars("font")

\* The MIME type inferred by the resolver for the URL of the record.
C5_Inferred == getImageNameAndTypeOfURL(arg.fileData.url, Undefined, <<>>)[2]

\* C5 as claimed: the MIME type is the file's type or the type inferred for
\* the URL, and "image/png" whenever that yields nothing, a file of empty type
\* included, so that the asset is then an image of format "png".
C5_DefaultsWheneverNothing ==
  Done("uploadingFileDataToAsset") =>
    LET fileData == arg.fileData
        resolved == IF fileData.source = "file" THEN fileData.file.type ELSE C5_Inferred
    IN  IF Falsy(resolved)
        THEN ret.type = Chars("image") /\ ret.format = Chars("png")
        ELSE C5_DecidedBy(resolved)

\* C5 amended: the MIME type is the file's type or the type inferred for the
\* URL; it defaults to "image/png" (an image asset of format "png") when the
\* resolution yields undefined, which is a URL for which nothing is inferred;
\* a file whose type is the empty string keeps it and becomes a font asset.
C5_DefaultsOnlyWhenUndefined ==
  Done("uploadingFileDataToAsset") =>
    LET fileData == arg.fileData
    IN  IF fileData.source = "file"
        THEN /\ C5_DecidedBy(fileData.file.type)
             /\ fileData.file.type = <<>> => ret.type = Chars("font")
        ELSE IF C5_Inferred = Undefined
        THEN ret.type = Chars("image") /\ ret.format = Chars("png")
        ELSE C5_DecidedBy(C5_Inferred)

\* A URL for which nothing is inferred became a png image asset.
C5_Witness ==
  /\ Done("uploadingFileDataToAsset")
  /\ arg.fileData.source = "url"
  /\ C5_Inferred = Undefined
  /\ ret.type = Chars("image")
  /\ ret.format = Chars("png")

-----------------------------------------------------------------------------
(* C6 *)

\* C6: getImageExtensionForMimeType(M) is the first extension in declaration
\* order whose MIME type is M, so that its MIME type is M again and
\* "image/jpeg" gives ".jpeg", never ".jpg"; it is undefined for every M
\* outside the table.
C6_FirstExtensionOfMime ==
  Done("getImageExtensionForMimeType") =>
    LET M == arg.mimeType
    IN  /\ M \in Range(imageMimeTypes) =>
             /\ ret = FirstExtension(LAMBDA ext : TableMime(ext) = M)
             /\ TableMime(ret) = M
        /\ M \notin Range(imageMimeTypes) => ret = Undefined
        /\ M = Chars("image/jpeg") => ret = Chars(".jpeg")

\* The lookup of the MIME type that two extensions share.
C6_Witness ==
  /\ Done("getImageExtensionForMimeType")
  /\ arg.mimeType = Chars("image/jpeg")
  /\ ret = Chars(".jpeg")

-----------------------------------------------------------------------------
(* C7 *)

\* C7: getImageNameAndType on a URL: whenever an extension is resolved, by the
\* scan or by defaultExtension, the MIME type returned is the table's MIME
\* type of that extension, whatever hint content-type carried.
C7_ExtensionDecidesMime ==
  (Done("getImageNameAndType(URL)") /\ ResolvedExtension # Undefined)
    => ret[2] = TableMime(ResolvedExtension)

\* A content-type hint was captured and the resolved extension overrode it.
C7_Witness ==
  /\ Done("getImageNameAndType(URL)")
  /\ ResolvedExtension # Undefined
  /\ scan.mimeType # Undefined
  /\ CapturedMimeType(arg.url) = scan.mimeType
  /\ ret[2] # scan.mimeType
  /\ ret[2] = TableMime(ResolvedExtension)

-----------------------------------------------------------------------------
(* C8 *)

\* What holds at every moment of a call of getSha256HashOfFile.
C8_Order ==
  (op = "getSha256HashOfFile" /\ pc # "ready") =>
    /\ Len(digest.calls) <= 1
    /\ digest.calls # <<>> =>
         /\ readPromise = [status |-> "fulfilled", value |-> arg.file.contents]
         /\ digest.calls[1] = arg.file.contents
    /\ ret.status = "fulfilled" =>
         /\ Len(digest.calls) = 1
         /\ ret.value = bufferToHex(digest.hashBuffer)
         /\ Len(ret.value) = 2 * Len(digest.hashBuffer)
         /\ digest.hashBuffer = <<10, 255>> => ret.value = Chars("0aff")
    /\ reader.error # Undefined =>
         /\ digest.calls = <<>>
         /\ readPromise = [status |-> "rejected", value |-> reader.error]
         /\ pc = "done" => ret = [status |-> "rejected", value |-> reader.error]
    /\ ret.status = "rejected" => reader.error # Undefined
    /\ pc = "done" <=> ret.status # "pending"

\* What holds of every step: a settled promise stays as it is, a read that
\* ended is not started again, and a digest that was started stays the only one.
C8_Once ==
  op = "getSha256HashOfFile" =>
    /\ (pc # "ready" /\ ret.status # "pending") => ret' = ret
    /\ (pc # "ready" /\ readPromise.status # "pending") => readPromise' = readPromise
    /\ reader.state = "done" => reader' = reader
    /\ digest.calls # <<>> => digest'.calls = digest.calls

\* C8: getSha256HashOfFile settles exactly once and in order: the digest is
\* started only after the read has completed successfully, once, on the buffer
\* that was read, and the result is the hex encoding of that digest; when the
\* read fails the promise is rejected with the reader's error, no digest is
\* computed and the read is not retried.
C8_ReadThenDigestOnce == []C8_Order /\ [][C8_Once]_vars

\* A read that succeeded was digested and the digest returned in hex.
C8_Witness ==
  /\ Done("getSha256HashOfFile")
  /\ arg.file.contents = <<171, 0>>
  /\ digest.calls = << <<171, 0>> >>
  /\ digest.hashBuffer = <<10, 255>>
  /\ ret = [status |-> "fulfilled", value |-> Chars("0aff")]

-----------------------------------------------------------------------------
(* C9 *)

\* C9: getImageNameAndType on a URL that resolves to extension E: when the
\* basename ends with E the filename is the basename, unless the filename
\* captured from content-disposition ends with E, which is then returned; when
\* the basename does not end with E the captured filename is returned if there
\* is one; only otherwise is the name a random id, "." and the extension.
C9_FileNamePrecedence ==
  (Done("getImageNameAndType(URL)") /\ ResolvedExtension # Undefined) =>
    LET E == ResolvedExtension
        basename == Basename(arg.url)
        captured == CapturedFileName(arg.url)
    IN  IF EndsWith(basename, E)
        THEN ret[1] = (IF OptEndsWith(captured, E) THEN captured ELSE basename)
        ELSE IF captured # Undefined
        THEN ret[1] = captured
        ELSE \E id \in NanoIds : ret[1] = id \o <<".">> \o E

\* The basename ends with the resolved extension and so does the captured
\* filename, which is the one returned.
C9_Witness ==
  /\ Done("getImageNameAndType(URL)")
  /\ ResolvedExtension = Chars(".webp")
  /\ Basename(arg.url) = Chars("logo.webp")
  /\ CapturedFileName(arg.url) = Chars("cat.webp")
  /\ ret[1] = Chars("cat.webp")

-----------------------------------------------------------------------------
(* C10 *)

\* C10: uploadingFileDataToAsset returns an image asset for every record of
\* source "url", whatever the path and the query parameters of the URL; only
\* a record of source "file" gives a font.
C10_UrlSourceIsImage ==
  (Done("uploadingFileDataToAsset") /\ arg.fileData.source = "url")
    => ret.type = Chars("image")

====
